---------------------------- MODULE Spec2Model ----------------------------
(***************************************************************************)
(* A model of termbrot (src/termbrot.go): the view state and the event     *)
(* loop of main, the pixel <-> plane mapping of the click handler and of   *)
(* the renderer, the escape-time loop, and the render pass of              *)
(* writeMandlebrotSet with its row-task goroutines and WaitGroup.          *)
(*                                                                         *)
(* Numbers.  A Go int is modelled as a two's complement bit vector of      *)
(* IntSize bits (least significant bit first), so that depth *= 2 wraps    *)
(* as the machine does.  A float64 is modelled as an exact fraction        *)
(* <<n, d>> with d > 0 in lowest terms, extended with <<1, 0>> (+Inf),     *)
(* <<-1, 0>> (-Inf) and <<0, 0>> (NaN); rounding is not modelled.          *)
(***************************************************************************)
EXTENDS Integers, Sequences, FiniteSets, TLC

(***************************************************************************)
(* Go int: fixed-width two's complement                                    *)
(***************************************************************************)
IntSize == 64

RECURSIVE Pow2(_)
Pow2(k) == IF k = 0 THEN 1 ELSE 2 * Pow2(k - 1)

\* The int whose value is the small natural n (n < 2^30).
IntOf(n) == [k \in 1..IntSize |-> IF k <= 30 THEN (n \div Pow2(k - 1)) % 2 ELSE 0]

IsNeg(b) == b[IntSize] = 1

\* b * 2, wrapping: a left shift that drops the top bit.
IntMul2(b) == [k \in 1..IntSize |-> IF k = 1 THEN 0 ELSE b[k - 1]]

\* Arithmetic shift right by one (floor of b / 2).
IntAsr(b) == [k \in 1..IntSize |-> IF k = IntSize THEN b[IntSize] ELSE b[k + 1]]

RECURSIVE IntIncFrom(_, _)
IntIncFrom(b, k) ==
    IF k > IntSize THEN b
    ELSE IF b[k] = 0 THEN [b EXCEPT ![k] = 1]
         ELSE IntIncFrom([b EXCEPT ![k] = 0], k + 1)

\* b / 2 as Go divides: truncated toward zero.
IntDiv2(b) ==
    IF IsNeg(b) /\ b[1] = 1 THEN IntIncFrom(IntAsr(b), 1) ELSE IntAsr(b)

RECURSIVE ULessFrom(_, _, _)
ULessFrom(a, b, k) ==
    IF k = 0 THEN FALSE
    ELSE IF a[k] # b[k] THEN a[k] < b[k]
         ELSE ULessFrom(a, b, k - 1)

\* a < b, signed.
IntLess(a, b) ==
    IF a[IntSize] # b[IntSize] THEN a[IntSize] = 1
    ELSE ULessFrom(a, b, IntSize - 1)

(***************************************************************************)
(* Go integer division of small ints (truncated toward zero)               *)
(***************************************************************************)
Abs(n) == IF n < 0 THEN -n ELSE n
Sgn(n) == IF n < 0 THEN -1 ELSE IF n > 0 THEN 1 ELSE 0
GoDiv(a, b) == Sgn(a) * Sgn(b) * (Abs(a) \div Abs(b))

(***************************************************************************)
(* float64 as extended exact fractions                                     *)
(***************************************************************************)
RECURSIVE GCD(_, _)
GCD(a, b) == IF b = 0 THEN a ELSE GCD(b, a % b)

NaN == <<0, 0>>
FNorm(n, d) ==
    IF d = 0 THEN <<Sgn(n), 0>>
    ELSE LET g == GCD(Abs(n), Abs(d))
         IN  <<Sgn(d) * (n \div g), Abs(d) \div g>>

F(n) == <<n, 1>>
IsFinite(a) == a[2] # 0
FNeg(a) == <<-a[1], a[2]>>

FAdd(a, b) ==
    IF a[2] # 0 /\ b[2] # 0 THEN FNorm(a[1] * b[2] + b[1] * a[2], a[2] * b[2])
    ELSE IF a = NaN \/ b = NaN THEN NaN
    ELSE IF a[2] = 0 /\ b[2] = 0 THEN (IF a = b THEN a ELSE NaN)
    ELSE IF a[2] = 0 THEN a ELSE b

FMul(a, b) ==
    IF a[2] # 0 /\ b[2] # 0 THEN FNorm(a[1] * b[1], a[2] * b[2])
    ELSE <<Sgn(a[1]) * Sgn(b[1]), 0>>

FDiv(a, b) ==
    IF a = NaN \/ b = NaN THEN NaN
    ELSE IF b[2] = 0 THEN (IF a[2] = 0 THEN NaN ELSE F(0))
    ELSE IF b[1] = 0 THEN <<Sgn(a[1]), 0>>
    ELSE IF a[2] = 0 THEN <<Sgn(a[1]) * Sgn(b[1]), 0>>
    ELSE FNorm(a[1] * b[2] * Sgn(b[1]), a[2] * Abs(b[1]))

\* a > b for finite a, b.
FGt(a, b) == a[1] * b[2] > b[1] * a[2]

\* complex128 as a pair <<re, im>> of floats.
Complex(re, im) == <<re, im>>
Real(c) == c[1]
Imag(c) == c[2]
CAdd(a, b) == <<FAdd(a[1], b[1]), FAdd(a[2], b[2])>>

(***************************************************************************)
(* Constants of the program                                                *)
(***************************************************************************)
aspect == F(1)
pan == <<1, 5>>
zoom == 2


(***************************************************************************)
(* Bounds of the model                                                     *)
(***************************************************************************)
\* The centre is explored while both coordinates stay within
\* MaxCenterFifths / 5 of the origin (or are not finite).
MaxCenterFifths == 1
\* The radius is explored between 1 / MaxRadiusDen and MaxRadius.
MaxRadiusDen == 1
MaxRadius == 2
\* Mouse cells of the click events.
MaxMouseX == 2
MaxMouseY == 2

(***************************************************************************)
(* State                                                                   *)
(***************************************************************************)
VARIABLES
    center, radius, depth, showHelp, showInfo, decompose,  \* the globals
    pc,        \* position of the main goroutine
    ev,        \* the event polled in this iteration of the loop of main
    redraw,    \* the local redraw of that iteration
    draws,     \* calls of draw() made in this iteration
    geom,      \* locals of writeMandlebrotSet: width, height, cellHeight, dx, dy
    h, y, fy, chunkHeight,   \* locals of writeMandlebrotSet
    data,      \* the pixel buffer, byte by byte
    tasks,     \* the live calculateMandlebrotRectangle goroutines
    wg,        \* the WaitGroup counter
    started,   \* the raster rows a goroutine was started for in this pass
    out,       \* the images handed to the terminal in this pass, in order
    ws, clickPlane, pixelPlane,  \* a window size and the two mappings of a cell
    c, z, i    \* locals of the escape-time loop

view == <<center, radius, depth, showHelp, showInfo, decompose>>
ctl == <<pc, ev, redraw, draws>>
pass == <<geom, h, y, fy, chunkHeight, data, tasks, wg, started, out>>
mapv == <<ws, clickPlane, pixelPlane>>
evalv == <<c, z, i>>
vars == <<view, ctl, pass, mapv, evalv>>

\* The globals as one record.
V == [center |-> center, radius |-> radius, depth |-> depth,
      showHelp |-> showHelp, showInfo |-> showInfo, decompose |-> decompose]

SetView(v) ==
    /\ center' = v.center
    /\ radius' = v.radius
    /\ depth' = v.depth
    /\ showHelp' = v.showHelp
    /\ showInfo' = v.showInfo
    /\ decompose' = v.decompose

(***************************************************************************)
(* reset                                                                   *)
(***************************************************************************)
\* A faulty reset that forgets the depth (used to test the reset property).
resetForgetsDepth(v) ==
    [v EXCEPT !.center = Complex(F(0), F(0)), !.radius = F(2)]

reset(v) ==
    [v EXCEPT !.center = Complex(F(0), F(0)), !.radius = F(2), !.depth = IntOf(256)]

(***************************************************************************)
(* Events of termbox (Event: Type, Key, Ch, Mod, MouseX, MouseY)           *)
(***************************************************************************)
KeyEsc == 27
KeyCtrlC == 3
KeyF1 == 65535 - 0
KeyPgup == 65535 - 16
KeyPgdn == 65535 - 17
KeyArrowUp == 65535 - 18
KeyArrowDown == 65535 - 19
KeyArrowLeft == 65535 - 20
KeyArrowRight == 65535 - 21
MouseLeft == 65535 - 23
MouseMiddle == 65535 - 24
MouseRight == 65535 - 25
MouseRelease == 65535 - 26
MouseWheelUp == 65535 - 27
MouseWheelDown == 65535 - 28

\* The runes the switch names: 'q' '=' '+' '-' '_' ']' '[' 'h' 'i' 'd' 'r'.
ChQ == 113
ChEquals == 61
ChPlus == 43
ChMinus == 45
ChUnderscore == 95
ChRBracket == 93
ChLBracket == 91
ChH == 104
ChI == 105
ChD == 100
ChR == 114
\* A rune no case names, and a rune beyond 16 bits whose low 16 bits are
\* those of ']' (U+1005D): Key(ev.Ch) makes it the key ']'.
ChX == 120
ChAstral == 65536 + ChRBracket

Event(type, key, ch, mod, mx, my) ==
    [Type |-> type, Key |-> key, Ch |-> ch, Mod |-> mod, MouseX |-> mx, MouseY |-> my]

NoEvent == Event("EventNone", 0, 0, {}, 0, 0)

\* termbox.Key is a uint16: Key(ev.Ch) truncates the rune, and the sum wraps.
KeyOfRune(ch) == ch % 65536
SwitchKey(e) == (e.Key + KeyOfRune(e.Ch)) % 65536

KeyEvents ==
    { Event("EventKey", k, 0, {}, 0, 0) :
        k \in {KeyEsc, KeyCtrlC, KeyArrowUp, KeyArrowDown, KeyArrowLeft,
               KeyArrowRight, KeyPgup, KeyPgdn, KeyF1} }
    \cup
    { Event("EventKey", 0, ch, {}, 0, 0) :
        ch \in {ChQ, ChEquals, ChPlus, ChMinus, ChUnderscore, ChRBracket,
                ChLBracket, ChH, ChI, ChD, ChR, ChX, ChAstral} }

ClickEvents ==
    { Event("EventMouse", k, 0, m, mx, my) :
        k \in {MouseLeft, MouseRight}, m \in {{}, {"ModAlt"}},
        mx \in 0..MaxMouseX, my \in 0..MaxMouseY }

OtherMouseEvents ==
    { Event("EventMouse", k, 0, {}, 0, 0) :
        k \in {MouseMiddle, MouseRelease, MouseWheelUp, MouseWheelDown} }

OtherEvents ==
    { Event(t, 0, 0, {}, 0, 0) : t \in {"EventResize", "EventError", "EventInterrupt"} }

Events == KeyEvents \cup ClickEvents \cup OtherMouseEvents \cup OtherEvents

(***************************************************************************)
(* Terminal geometry                                                       *)
(***************************************************************************)
WinSize(row, col, xpixel, ypixel) ==
    [Row |-> row, Col |-> col, Xpixel |-> xpixel, Ypixel |-> ypixel]

\* getImageDimensions divides by cols and by rows: a window of no columns or
\* no rows makes the integer division panic.
DimensionsPanic(w) == w.Col = 0 \/ w.Row = 0

getImageDimensions(w) ==
    LET cellWidth == GoDiv(w.Xpixel, w.Col)
        cellHeight == GoDiv(w.Ypixel, w.Row)
        cols == w.Col - 1
        rows == w.Row - 1
    IN  [imageWidth |-> cols * cellWidth, imageHeight |-> rows * cellHeight,
         rows |-> rows, cols |-> cols,
         cellWidth |-> cellWidth, cellHeight |-> cellHeight]

getSetSize(width, height, r) ==
    IF FGt(F(height), FDiv(F(width), aspect))
    THEN [dx |-> FDiv(FMul(F(2), r), F(width)),
          dy |-> FMul(FDiv(FMul(F(2), r), F(width)), aspect)]
    ELSE [dx |-> FDiv(FDiv(FMul(F(2), r), F(height)), aspect),
          dy |-> FDiv(FMul(F(2), r), F(height))]

(***************************************************************************)
(* The switch of main                                                      *)
(***************************************************************************)
Handled(v, rd, ret) == [view |-> v, redraw |-> rd, return |-> ret]

\* The cases of switch ev.Key + termbox.Key(ev.Ch): the globals after the
\* case, whether it returns from main, whether it is the default case.
Case(v, ret, dflt) == [view |-> v, return |-> ret, default |-> dflt]

KeyCases(sw, v) ==
    CASE sw \in {KeyEsc, KeyCtrlC, ChQ} -> Case(v, TRUE, FALSE)
      [] sw = KeyArrowUp ->
            Case([v EXCEPT !.center =
                CAdd(v.center, Complex(F(0), FMul(FNeg(v.radius), pan)))], FALSE, FALSE)
      [] sw = KeyArrowDown ->
            Case([v EXCEPT !.center =
                CAdd(v.center, Complex(F(0), FMul(v.radius, pan)))], FALSE, FALSE)
      [] sw = KeyArrowLeft ->
            Case([v EXCEPT !.center =
                CAdd(v.center, Complex(FMul(FNeg(v.radius), pan), F(0)))], FALSE, FALSE)
      [] sw = KeyArrowRight ->
            Case([v EXCEPT !.center =
                CAdd(v.center, Complex(FMul(v.radius, pan), F(0)))], FALSE, FALSE)
      [] sw \in {KeyPgup, ChEquals, ChPlus} ->
            Case([v EXCEPT !.radius = FDiv(v.radius, F(zoom))], FALSE, FALSE)
      [] sw \in {KeyPgdn, ChMinus, ChUnderscore} ->
            Case([v EXCEPT !.radius = FMul(v.radius, F(zoom))], FALSE, FALSE)
      [] sw = ChRBracket ->
            Case([v EXCEPT !.depth = IntMul2(v.depth)], FALSE, FALSE)
      [] sw = ChLBracket ->
            LET d == IntDiv2(v.depth)
            IN  Case([v EXCEPT !.depth =
                    IF IntLess(d, IntOf(64)) THEN IntOf(64) ELSE d], FALSE, FALSE)
      [] sw = ChH -> Case([v EXCEPT !.showHelp = ~v.showHelp], FALSE, FALSE)
      [] sw = ChI -> Case([v EXCEPT !.showInfo = ~v.showInfo], FALSE, FALSE)
      [] sw = ChD -> Case([v EXCEPT !.decompose = ~v.decompose], FALSE, FALSE)
      [] sw = ChR -> Case(reset(v), FALSE, FALSE)
      [] OTHER -> Case(v, FALSE, TRUE)

\* A faulty key case whose default case forgets redraw = false.
HandleKeyNoDefault(sw, v) ==
    LET k == KeyCases(sw, v)
    IN  Handled(k.view, TRUE, k.return)

\* case termbox.EventKey: redraw = true, then the switch, whose default
\* case sets redraw = false.
HandleKey(sw, v) ==
    LET k == KeyCases(sw, v)
    IN  Handled(k.view, ~k.default, k.return)

\* The plane point the click handler makes the new centre.
ClickCenter(e, v, w) ==
    LET g == getImageDimensions(w)
        s == getSetSize(g.imageWidth, g.imageHeight, v.radius)
        newReal == FAdd(Real(v.center),
                     FMul(FDiv(FMul(s.dx, F(e.MouseX - GoDiv(g.cols, 2))), F(g.cols)),
                          F(g.imageWidth)))
        newImag == FAdd(Imag(v.center),
                     FMul(FDiv(FMul(s.dy, F(e.MouseY - GoDiv(g.rows, 2))), F(g.rows)),
                          F(g.imageHeight)))
    IN  Complex(newReal, newImag)

\* A faulty click case that ignores the Alt modifier.
HandleClickIgnoresAlt(e, v, w) ==
    LET moved == [v EXCEPT !.center = ClickCenter(e, v, w)]
    IN  IF e.Key = MouseLeft
        THEN [moved EXCEPT !.radius = FDiv(v.radius, F(zoom))]
        ELSE [moved EXCEPT !.radius = FMul(v.radius, F(zoom))]

\* case termbox.MouseLeft, termbox.MouseRight (the geometry did not panic)
HandleClick(e, v, w) ==
    LET moved == [v EXCEPT !.center = ClickCenter(e, v, w)]
    IN  IF e.Key = MouseLeft /\ "ModAlt" \notin e.Mod
        THEN [moved EXCEPT !.radius = FDiv(v.radius, F(zoom))]
        ELSE [moved EXCEPT !.radius = FMul(v.radius, F(zoom))]

\* case termbox.EventMouse, the buttons that query no geometry
HandleMouse(e, v) ==
    CASE e.Key = MouseWheelDown ->
            Handled([v EXCEPT !.radius = FMul(v.radius, F(zoom))], TRUE, FALSE)
      [] e.Key = MouseWheelUp ->
            Handled([v EXCEPT !.radius = FDiv(v.radius, F(zoom))], TRUE, FALSE)
      [] OTHER -> Handled(v, FALSE, FALSE)

(***************************************************************************)
(* Initial values                                                          *)
(***************************************************************************)
\* The globals as declared, after the reset() main calls first.
SetViewInit ==
    /\ center = Complex(F(0), F(0))
    /\ radius = F(2)
    /\ depth = IntOf(256)
    /\ showHelp = TRUE
    /\ showInfo = TRUE
    /\ decompose = FALSE

NoGeom == [width |-> 0, height |-> 0, cellHeight |-> 0, dx |-> F(0), dy |-> F(0)]

\* No render pass has run.
PassIdle ==
    /\ geom = NoGeom
    /\ h = 0
    /\ y = 0
    /\ fy = F(0)
    /\ chunkHeight = 0
    /\ data = <<>>
    /\ tasks = {}
    /\ wg = 0
    /\ started = <<>>
    /\ out = <<>>

\* The variables of the mapping and of the escape-time loop, at rest.
MapIdle ==
    /\ ws = WinSize(0, 0, 0, 0)
    /\ clickPlane = Complex(F(0), F(0))
    /\ pixelPlane = Complex(F(0), F(0))

EvalIdle ==
    /\ c = Complex(F(0), F(0))
    /\ z = Complex(F(0), F(0))
    /\ i = 0

(***************************************************************************)
(* The event loop of main, with draw() as one step                         *)
(***************************************************************************)
\* Window sizes the terminal reports to the controller: none, a 5 x 5 cell
\* image of 2 x 2 pixel cells, and the same with no pixel height.
CtlWinSizes ==
    { WinSize(0, 0, 0, 0), WinSize(6, 6, 12, 12), WinSize(6, 6, 12, 0) }

CoordInBounds(x) == ~IsFinite(x) \/ 5 * Abs(x[1]) <= MaxCenterFifths * x[2]

InBounds(v) ==
    /\ IsFinite(v.radius)
    /\ v.radius[1] * MaxRadiusDen >= v.radius[2]
    /\ v.radius[1] <= MaxRadius * v.radius[2]
    /\ CoordInBounds(Real(v.center))
    /\ CoordInBounds(Imag(v.center))

Init ==
    /\ SetViewInit
    /\ pc = "start"
    /\ ev = NoEvent
    /\ redraw = FALSE
    /\ draws = 0
    /\ PassIdle
    /\ MapIdle
    /\ EvalIdle

\* ev := termbox.PollEvent() and the switch on it.
PollEvent(e) ==
    /\ pc = "poll"
    /\ ev' = e
    /\ draws' = draws
    /\ CASE e.Type = "EventKey" ->
              LET r == HandleKey(SwitchKey(e), V)
              IN  /\ SetView(r.view)
                  /\ redraw' = r.redraw
                  /\ pc' = IF r.return THEN "exit" ELSE "handled"
         [] e.Type = "EventMouse" /\ e.Key \in {MouseLeft, MouseRight} ->
              \E w \in CtlWinSizes :
                  IF DimensionsPanic(w)
                  THEN /\ pc' = "panic"
                       /\ redraw' = TRUE
                       /\ UNCHANGED view
                  ELSE /\ SetView(HandleClick(e, V, w))
                       /\ redraw' = TRUE
                       /\ pc' = "handled"
         [] e.Type = "EventMouse" /\ e.Key \notin {MouseLeft, MouseRight} ->
              LET r == HandleMouse(e, V)
              IN  /\ SetView(r.view)
                  /\ redraw' = r.redraw
                  /\ pc' = "handled"
         [] e.Type = "EventResize" ->
              /\ redraw' = TRUE
              /\ pc' = "handled"
              /\ UNCHANGED view
         [] OTHER ->
              /\ redraw' = FALSE
              /\ pc' = "handled"
              /\ UNCHANGED view
    /\ InBounds(V')
    /\ UNCHANGED <<pass, mapv, evalv>>

\* How a call of draw() can end for the window size w: a window of no rows
\* or columns panics in getImageDimensions; a negative depth makes
\* smoothColor index the gradient with int(NaN), which panics or not with
\* the build; otherwise draw returns.
DrawOutcomes(w, d) ==
    IF DimensionsPanic(w) THEN {"panic"}
    ELSE LET g == getImageDimensions(w)
         IN  IF IsNeg(d) /\ g.imageWidth > 0 /\ g.imageHeight > 0
             THEN {"panic", "drawn"}
             ELSE {"drawn"}

\* if redraw { draw() }, and the first draw() of main.
Draw ==
    /\ pc = "start" \/ (pc = "handled" /\ redraw)
    /\ draws' = draws + 1
    /\ pc' \in UNION { DrawOutcomes(w, depth) : w \in CtlWinSizes }
    /\ UNCHANGED <<view, ev, redraw, pass, mapv, evalv>>

\* The end of an iteration of the loop: the locals ev and redraw end with
\* it, and the count of draw() calls starts again for the next event.
EndIteration ==
    /\ pc = "drawn" \/ (pc = "handled" /\ ~redraw)
    /\ pc' = "poll"
    /\ ev' = NoEvent
    /\ redraw' = FALSE
    /\ draws' = 0
    /\ UNCHANGED <<view, pass, mapv, evalv>>

Next == (\E e \in Events : PollEvent(e)) \/ Draw \/ EndIteration

Spec == Init /\ [][Next]_vars

(***************************************************************************)
(* The render pass: draw() and writeMandlebrotSet step by step, and the    *)
(* calculateMandlebrotRectangle goroutines                                 *)
(***************************************************************************)
\* Bounds of the window sizes the terminal reports to a render pass.
MaxRow == 3
MaxCol == 3
MaxXpixel == 3
MaxYpixel == 6

RenderWinSizes ==
    { WinSize(r, k, xp, yp) :
        r \in 0..MaxRow, k \in 0..MaxCol, xp \in 0..MaxXpixel, yp \in 0..MaxYpixel }

\* The events explored around render passes: the keys that change what the
\* row tasks read (depth, decompose), a resize, quit, and an unmapped key.
RenderEvents ==
    { Event("EventKey", 0, ch, {}, 0, 0) :
        ch \in {ChRBracket, ChLBracket, ChD, ChQ, ChX} }
    \cup { Event("EventResize", 0, 0, {}, 0, 0) }

rowSize == 3 * geom.width

\* A goroutine go calculateMandlebrotRectangle(fx, fy, dx, width, line, &wg):
\* its arguments, its locals x and p, and the raster row it was started for.
\* line is data[lo:hi], kept as its bounds.
Task(row, fx, tfy, dx, width, line) ==
    [row |-> row, fx |-> fx, fy |-> tfy, dx |-> dx, width |-> width,
     lo |-> line.lo, hi |-> line.hi, x |-> 0, p |-> 0]

\* A faulty slice: every row task gets the first row of the buffer.
LineSliceFirstRow(ty, th, rs) == [lo |-> 0, hi |-> rs]

\* data[(y-h)*rowSize : (y-h+1)*rowSize]
LineSlice(ty, th, rs) == [lo |-> (ty - th) * rs, hi |-> (ty - th + 1) * rs]

\* A faulty wait that never blocks.
WaitNeverBlocks(n) == TRUE

\* wg.Wait() returns when the counter is zero.
WaitReturns(n) == n = 0

\* A faulty test of the row loop that leaves out the last row of a chunk.
MoreRowsButLast(ty, th, ch) == ty < th + ch - 1

\* y < h+chunkHeight
MoreRows(ty, th, ch) == ty < th + ch

RECURSIVE AddTimes(_, _, _)
\* a after n turns of a += d.
AddTimes(a, d, n) == IF n = 0 THEN a ELSE AddTimes(FAdd(a, d), d, n - 1)

\* The plane point the renderer computes for the pixel (px, py): fx and fy
\* start at the centre less half the image and step by dx and dy.
RenderPlane(g, ctr, px, py) ==
    Complex(AddTimes(FAdd(Real(ctr), FMul(g.dx, F(GoDiv(-g.width, 2)))), g.dx, px),
            AddTimes(FAdd(Imag(ctr), FMul(g.dy, F(GoDiv(-g.height, 2)))), g.dy, py))

\* The byte a row task stores for channel k of the pixel at plane point cpt:
\* a channel of smoothColor(i, z, depth) for that point, under the decompose
\* flag read.  The colour itself is not computed.
ColorByte(cpt, dec, k) == [pt |-> cpt, decompose |-> dec, channel |-> k]

\* A byte of the buffer as make([]byte, n) leaves it: written for no point.
ZeroByte == [pt |-> <<>>, decompose |-> FALSE, channel |-> 0]

PassPcs == {"chunk", "spawn", "wait", "write", "overlay"}

\* What writeMandlebrotSet keeps of getImageDimensions, for the window sizes
\* that do not make it panic.
RenderDims ==
    { LET g == getImageDimensions(w)
      IN  [width |-> g.imageWidth, height |-> g.imageHeight, cellHeight |-> g.cellHeight] :
        w \in { u \in RenderWinSizes : ~DimensionsPanic(u) } }

RenderCanPanic == \E w \in RenderWinSizes : DimensionsPanic(w)

\* draw() up to the loop of writeMandlebrotSet: the geometry is queried, the
\* buffer made, fy set to the top row.
DrawStart ==
    /\ pc = "start" \/ (pc = "handled" /\ redraw)
    /\ draws' = draws + 1
    /\ \/ /\ RenderCanPanic
          /\ pc' = "panic"
          /\ UNCHANGED pass
       \/ \E g \in RenderDims :
            LET s == getSetSize(g.width, g.height, radius)
            IN  /\ geom' = [width |-> g.width, height |-> g.height,
                            cellHeight |-> g.cellHeight, dx |-> s.dx, dy |-> s.dy]
                /\ data' = [k \in 1..(g.cellHeight * 3 * g.width) |-> ZeroByte]
                /\ fy' = FAdd(Imag(center), FMul(s.dy, F(GoDiv(-g.height, 2))))
                /\ h' = 0
                /\ y' = 0
                /\ chunkHeight' = 0
                /\ tasks' = tasks
                /\ wg' = 0
                /\ started' = <<>>
                /\ out' = <<>>
                /\ pc' = "chunk"
    /\ UNCHANGED <<view, ev, redraw, mapv, evalv>>

\* for h := 0; h < height; h += cellHeight: the test, and the head of the body.
ChunkLoop ==
    /\ pc = "chunk"
    /\ IF h < geom.height
       THEN /\ chunkHeight' = IF h + geom.cellHeight > geom.height
                              THEN geom.height - h
                              ELSE geom.cellHeight
            /\ y' = h
            /\ pc' = "spawn"
       ELSE /\ pc' = "overlay"
            /\ UNCHANGED <<chunkHeight, y>>
    /\ UNCHANGED <<view, ev, redraw, draws, geom, h, fy, data, tasks, wg, started, out,
                   mapv, evalv>>

\* for y := h; y < h+chunkHeight; y++: one goroutine per row of the chunk.
Spawn ==
    /\ pc = "spawn"
    /\ IF MoreRows(y, h, chunkHeight)
       THEN LET fx == FAdd(Real(center), FMul(geom.dx, F(GoDiv(-geom.width, 2))))
            IN  /\ wg' = wg + 1
                /\ tasks' = tasks \cup
                      {Task(y, fx, fy, geom.dx, geom.width, LineSlice(y, h, rowSize))}
                /\ started' = Append(started, y)
                /\ fy' = FAdd(fy, geom.dy)
                /\ y' = y + 1
                /\ pc' = pc
       ELSE /\ pc' = "wait"
            /\ UNCHANGED <<wg, tasks, started, fy, y>>
    /\ UNCHANGED <<view, ev, redraw, draws, geom, h, chunkHeight, data, out, mapv, evalv>>

\* wg.Wait()
WgWait ==
    /\ pc = "wait"
    /\ WaitReturns(wg)
    /\ pc' = "write"
    /\ UNCHANGED <<view, ev, redraw, draws, pass, mapv, evalv>>

\* writeRGB(data, width, chunkHeight) for data = data[:chunkHeight*rowSize],
\* then the break on an empty chunk, or the next chunk.  The terminal gets
\* the base64 text of the bytes in pieces; the model keeps the bytes.
WriteRGB ==
    /\ pc = "write"
    /\ LET rawData == SubSeq(data, 1, chunkHeight * rowSize)
       IN  /\ out' = IF Len(rawData) > 0
                     THEN Append(out, [width |-> geom.width, height |-> chunkHeight,
                                       rawData |-> rawData])
                     ELSE out
           /\ IF Len(rawData) = 0
              THEN pc' = "overlay" /\ h' = h
              ELSE pc' = "chunk" /\ h' = h + geom.cellHeight
    /\ UNCHANGED <<view, ev, redraw, draws, geom, y, fy, chunkHeight, data, tasks, wg,
                   started, mapv, evalv>>

\* The rest of draw(): the time taken, and the overlay if help or info is on.
\* Neither is kept in the model.
Overlay ==
    /\ pc = "overlay"
    /\ pc' = "drawn"
    /\ UNCHANGED <<view, ev, redraw, draws, pass, mapv, evalv>>

Running == pc \notin {"panic", "exit"}

\* One turn of for x := 0; x < width; x++ in a goroutine: the escape-time
\* loop and smoothColor for complex(fx, fy), reading depth and decompose,
\* then the three bytes of the pixel.
TaskPixel(t) ==
    /\ Running
    /\ t \in tasks
    /\ t.x < t.width
    /\ LET cpt == Complex(t.fx, t.fy)
           at == t.lo + t.p
       IN  data' = [data EXCEPT ![at + 1] = ColorByte(cpt, decompose, 0),
                                ![at + 2] = ColorByte(cpt, decompose, 1),
                                ![at + 3] = ColorByte(cpt, decompose, 2)]
    /\ tasks' = (tasks \ {t}) \cup
          {[t EXCEPT !.p = t.p + 3, !.fx = FAdd(t.fx, t.dx), !.x = t.x + 1]}
    /\ UNCHANGED <<view, ctl, geom, h, y, fy, chunkHeight, wg, started, out, mapv, evalv>>

\* With a negative depth the escape-time loop does not run, i = 0 is not
\* maxDepth, and smoothColor takes log(log(0)): NaN.  int(NaN) is left to
\* the build; where it is the least int, gradient[idx] panics.
TaskPanic(t) ==
    /\ Running
    /\ t \in tasks
    /\ t.x < t.width
    /\ IsNeg(depth)
    /\ pc' = "panic"
    /\ UNCHANGED <<view, ev, redraw, draws, pass, mapv, evalv>>

\* The loop has ended: the deferred wg.Done().
TaskDone(t) ==
    /\ Running
    /\ t \in tasks
    /\ t.x >= t.width
    /\ wg' = wg - 1
    /\ tasks' = tasks \ {t}
    /\ UNCHANGED <<view, ctl, geom, h, y, fy, chunkHeight, data, started, out, mapv, evalv>>

TaskStep(t) == TaskPixel(t) \/ TaskPanic(t) \/ TaskDone(t)

MainStep == DrawStart \/ ChunkLoop \/ Spawn \/ WgWait \/ WriteRGB \/ Overlay \/ EndIteration

RenderNext ==
    \/ \E e \in RenderEvents : PollEvent(e)
    \/ DrawStart
    \/ ChunkLoop
    \/ Spawn
    \/ WgWait
    \/ WriteRGB
    \/ Overlay
    \/ EndIteration
    \/ \E t \in tasks : TaskPixel(t)
    \/ \E t \in tasks : TaskPanic(t)
    \/ \E t \in tasks : TaskDone(t)

RenderSpec == Init /\ [][RenderNext]_vars

(***************************************************************************)
(* The two pixel -> plane mappings, applied to one clicked cell             *)
(***************************************************************************)
\* Bounds of the window sizes and of the clicked cell.
MaxMapRow == 4
MaxMapCol == 4
MaxMapCell == 2

\* Windows of at least two rows and columns whose cells have pixels.
MapWinSizes ==
    { WinSize(r, k, k * cw, r * ch) :
        r \in 2..MaxMapRow, k \in 2..MaxMapCol, cw \in 1..MaxMapCell, ch \in 1..MaxMapCell }

MapInit ==
    /\ center = Complex(F(0), F(0))
    /\ radius \in {F(1), F(2)}
    /\ depth = IntOf(256)
    /\ showHelp = TRUE
    /\ showInfo = TRUE
    /\ decompose = FALSE
    /\ pc = "clicked"
    /\ ws \in MapWinSizes
    /\ ev \in { Event("EventMouse", MouseLeft, 0, {}, mx, my) :
                  mx \in 0..(MaxMapCol - 1), my \in 0..(MaxMapRow - 1) }
    /\ ev.MouseX < ws.Col - 1
    /\ ev.MouseY < ws.Row - 1
    /\ redraw = FALSE
    /\ draws = 0
    /\ PassIdle
    /\ clickPlane = Complex(F(0), F(0))
    /\ pixelPlane = Complex(F(0), F(0))
    /\ EvalIdle

\* The click handler's plane point for the cell of ev.
MapClick ==
    /\ pc = "clicked"
    /\ clickPlane' = ClickCenter(ev, V, ws)
    /\ pc' = "rendered"
    /\ UNCHANGED <<view, ev, redraw, draws, pass, ws, pixelPlane, evalv>>

\* The renderer's plane point for the first pixel of that cell.
MapPixel ==
    /\ pc = "rendered"
    /\ LET g == getImageDimensions(ws)
           s == getSetSize(g.imageWidth, g.imageHeight, radius)
       IN  pixelPlane' =
               RenderPlane([width |-> g.imageWidth, height |-> g.imageHeight,
                            cellHeight |-> g.cellHeight, dx |-> s.dx, dy |-> s.dy],
                           center, ev.MouseX * g.cellWidth, ev.MouseY * g.cellHeight)
    /\ pc' = "mapped"
    /\ UNCHANGED <<view, ev, redraw, draws, pass, ws, clickPlane, evalv>>

MapNext == MapClick \/ MapPixel

MapSpec == MapInit /\ [][MapNext]_vars

(***************************************************************************)
(* The escape-time loop of calculateMandlebrotRectangle, for one pixel     *)
(***************************************************************************)
\* Bounds of the plane points (whole numbers up to MaxC each way) and of
\* the depth.
MaxC == 3
MaxEvalDepth == 4

CSquare(a) ==
    Complex(FAdd(FMul(Real(a), Real(a)), FNeg(FMul(Imag(a), Imag(a)))),
            FMul(F(2), FMul(Real(a), Imag(a))))

\* cmplx.Abs(a) >= 2, for finite a.
AbsAtLeast2(a) ==
    ~FGt(F(4), FAdd(FMul(Real(a), Real(a)), FMul(Imag(a), Imag(a))))

\* cmplx.Abs(a) > 2, for finite a.
AbsAbove2(a) ==
    FGt(FAdd(FMul(Real(a), Real(a)), FMul(Imag(a), Imag(a))), F(4))

\* A faulty start of the orbit: at c instead of 0.
StartAtC(cpt) == cpt

\* z := complex(0, 0)
StartOfOrbit(cpt) == Complex(F(0), F(0))

EvalInit ==
    /\ center = Complex(F(0), F(0))
    /\ radius = F(2)
    /\ depth \in { IntOf(n) : n \in 1..MaxEvalDepth }
    /\ showHelp = TRUE
    /\ showInfo = TRUE
    /\ decompose = FALSE
    /\ pc = "pixel"
    /\ ev = NoEvent
    /\ redraw = FALSE
    /\ draws = 0
    /\ PassIdle
    /\ MapIdle
    /\ c \in { Complex(F(a), F(b)) : a \in (-MaxC)..MaxC, b \in (-MaxC)..MaxC }
    /\ z = Complex(F(0), F(0))
    /\ i = 0

\* z := complex(0, 0); c := complex(fx, fy); i = 0
EvalBegin ==
    /\ pc = "pixel"
    /\ z' = StartOfOrbit(c)
    /\ i' = 0
    /\ pc' = "loop"
    /\ UNCHANGED <<view, ev, redraw, draws, pass, mapv, c>>

\* One test of i < depth and, if it holds, one turn of the loop: the break
\* on cmplx.Abs(z) >= 2, else z = z*z + c and i++.
EvalTurn ==
    /\ pc = "loop"
    /\ IF IntLess(IntOf(i), depth)
       THEN IF AbsAtLeast2(z)
            THEN /\ pc' = "color"
                 /\ UNCHANGED <<z, i>>
            ELSE /\ z' = CAdd(CSquare(z), c)
                 /\ i' = i + 1
                 /\ pc' = pc
       ELSE /\ pc' = "color"
            /\ UNCHANGED <<z, i>>
    /\ UNCHANGED <<view, ev, redraw, draws, pass, mapv, c>>

EvalNext == EvalBegin \/ EvalTurn

EvalSpec == EvalInit /\ [][EvalNext]_vars

(***************************************************************************)
(* Properties of the event loop                                            *)
(***************************************************************************)
\* The step of the loop that polls and handles one event.
PollStep == pc = "poll" /\ pc' # "poll"

\* C1: in every reachable state depth >= 64; neither repeated '[' nor
\* repeated ']' (depth *= 2 on a fixed-width int) gives a depth below 64.
C1_DepthAtLeast64 == ~IntLess(depth, IntOf(64))

IsResetKey(e) == e.Type = "EventKey" /\ SwitchKey(e) = ChR

\* C2: once the reset key 'r' has been handled, whatever came before it,
\* center = 0+0i, radius = 2.0 and depth = 256, the values at startup.
C2_ResetRestoresHome ==
    (pc = "handled" /\ IsResetKey(ev)) =>
        /\ center = Complex(F(0), F(0))
        /\ radius = F(2)
        /\ depth = IntOf(256)

\* C2 witness: reset has been handled after toggles that it does not undo.
C2_ResetHandled ==
    pc = "handled" /\ IsResetKey(ev) /\ decompose /\ ~showHelp /\ depth = IntOf(256)

\* The events the controls name: the value the key switch must see, the
\* mouse buttons, and a resize.
RecognizedKeys ==
    {KeyEsc, KeyCtrlC, ChQ, KeyArrowUp, KeyArrowDown, KeyArrowLeft, KeyArrowRight,
     KeyPgup, ChEquals, ChPlus, KeyPgdn, ChMinus, ChUnderscore, ChRBracket,
     ChLBracket, ChH, ChI, ChD, ChR}

Recognized(e) ==
    \/ e.Type = "EventKey" /\ SwitchKey(e) \in RecognizedKeys
    \/ e.Type = "EventMouse"
         /\ e.Key \in {MouseLeft, MouseRight, MouseWheelUp, MouseWheelDown}
    \/ e.Type = "EventResize"

IsClick(e) == e.Type = "EventMouse" /\ e.Key \in {MouseLeft, MouseRight}

\* The step that handles a click to its end.
ClickStep == PollStep /\ IsClick(ev') /\ pc' = "handled"

\* C5 as stated: every left click halves the radius and every right click
\* doubles it, whatever modifier flags the event carries.
C5_ClickZoomAnyModifier ==
    [][ ClickStep =>
          radius' = IF ev'.Key = MouseLeft THEN FDiv(radius, F(zoom))
                                           ELSE FMul(radius, F(zoom)) ]_vars

\* C5 amended: a left click without the Alt modifier halves the radius; a
\* right click, and a left click with Alt, doubles it; in each case after
\* the centre has been moved to the clicked point.
C5_ClickZoomUnlessAlt ==
    [][ ClickStep =>
          /\ radius' = IF ev'.Key = MouseLeft /\ "ModAlt" \notin ev'.Mod
                       THEN FDiv(radius, F(zoom))
                       ELSE FMul(radius, F(zoom))
          /\ \E w \in CtlWinSizes :
                ~DimensionsPanic(w) /\ center' = ClickCenter(ev', V, w) ]_vars

\* C5 witness: a left click with Alt has been handled and zoomed out.
C5_AltLeftClickHandled ==
    /\ pc = "handled" /\ IsClick(ev) /\ ev.Key = MouseLeft /\ "ModAlt" \in ev.Mod
    /\ radius = F(2)

(***************************************************************************)
(* Properties of the pixel <-> plane mapping                               *)
(***************************************************************************)
\* C4: for every geometry and clicked cell (mx, my), the plane point the
\* click handler makes the centre is the plane point the renderer gave the
\* pixel (mx*cellWidth, my*cellHeight).
C4_ClickMatchesRenderer == (pc = "mapped") => (clickPlane = pixelPlane)

(***************************************************************************)
(* Properties of the escape-time loop                                      *)
(***************************************************************************)
\* C6 as stated: for every c with |c| > 2 and every maxDepth >= 1 the
\* iteration count handed to smoothColor is 0.
C6_OutsideCountsZero == (pc = "color" /\ AbsAbove2(c)) => (i = 0)

\* C6 amended: for every c with |c| > 2 and every maxDepth >= 1 the
\* iteration count handed to smoothColor is 1: the first test sees z = 0.
C6_OutsideCountsOne == (pc = "color" /\ AbsAbove2(c)) => (i = 1)

\* C6 witness: the loop has ended by its break for a point outside radius 2.
C6_OutsideEscaped ==
    pc = "color" /\ AbsAbove2(c) /\ IntLess(IntOf(i), depth) /\ z = c

(***************************************************************************)
(* Properties of the render pass                                           *)
(***************************************************************************)
RECURSIVE BytesSent(_)
\* The bytes of the images handed to the terminal, in order.
BytesSent(images) ==
    IF images = <<>> THEN <<>>
    ELSE Head(images).rawData \o BytesSent(Tail(images))

\* The bytes of raster row ry as the renderer's mapping gives them.
RowBytes(ry) ==
    [j \in 1..(3 * geom.width) |->
        ColorByte(RenderPlane(geom, center, (j - 1) \div 3, ry), decompose, (j - 1) % 3)]

RECURSIVE RowsFrom(_)
\* The bytes of the raster rows ry .. height-1, row after row.
RowsFrom(ry) == IF ry >= geom.height THEN <<>> ELSE RowBytes(ry) \o RowsFrom(ry + 1)

\* A row task was started for each raster row 0 .. height-1, once and in
\* that order; the images sent are made of whole rows of the raster's width,
\* and their bytes are those of the rows 0 .. height-1 in that order.
AllRowsOnce ==
    /\ started = [k \in 1..geom.height |-> k - 1]
    /\ \A k \in 1..Len(out) :
          /\ out[k].width = geom.width
          /\ Len(out[k].rawData) = 3 * out[k].width * out[k].height
    /\ BytesSent(out) = RowsFrom(0)

C8_NoBufferRace ==
    /\ \A t \in tasks :
          /\ 0 <= t.lo /\ t.lo <= t.hi /\ t.hi <= chunkHeight * rowSize
          /\ t.hi <= Len(data)
          /\ t.p + 3 * (t.width - t.x) = t.hi - t.lo
    /\ \A t1, t2 \in tasks : (t1 # t2) => (t1.hi <= t2.lo \/ t2.hi <= t1.lo)
    /\ wg = Cardinality(tasks)
    /\ (pc \in {"write", "chunk", "overlay", "drawn"}) => (tasks = {})

\* C8 witness: two row tasks of a later chunk are live, one part way
\* through its row, in the buffer the first chunk used.
C8_TwoTasksLive ==
    \E t1, t2 \in tasks : t1 # t2 /\ h > 0 /\ t1.x > 0 /\ t1.x < t1.width

\* C9: the controller polls an event or changes a global only when no row
\* task is live, and no global changes from the start of a render pass to
\* its end.
C9_NoTaskOutlivesPass ==
    [][ /\ (PollStep \/ view' # view) => (tasks = {} /\ wg = 0)
        /\ (pc \in PassPcs \/ tasks # {}) => (view' = view) ]_vars

\* C9 witness: the controller has changed decompose after a pass whose row
\* tasks have all ended.
C9_ChangedAfterPass ==
    /\ pc = "handled" /\ ev.Ch = ChD /\ decompose
    /\ Len(started) > 1 /\ tasks = {}

\* C10: a render pass that starts runs to its end: no pass aborts.
C10_NoPassAborts == pc # "panic"

\* The scheduling a render pass relies on: the main goroutine and every
\* row task keep taking steps while they can.
FairRenderSpec ==
    /\ RenderSpec
    /\ WF_vars(MainStep)
    /\ \A r \in 0..(MaxRow * MaxYpixel) :
          WF_vars(\E t \in tasks : t.row = r /\ TaskStep(t))

\* Under that scheduling a pass that has started ends or aborts.
PassEndsOrAborts == (pc \in PassPcs) ~> (pc \in {"drawn", "panic"})

=============================================================================
